---- MODULE Spec2Model ----
(***************************************************************************)
(* FixedYouTubeTranslator (complete_working_translator.py): one run of     *)
(* translate_video, or one direct call of create_translated_audio_fixed.   *)
(*                                                                         *)
(* Times: a slot time t (seconds, a float) enters the program only through *)
(* the product t * 1000.  The model carries that product in ticks of       *)
(* 1/TicksPerMs millisecond, so that a product that is not a whole number  *)
(* of milliseconds (a sub-millisecond timestamp, or a float product such   *)
(* as 2.01 * 1000 = 2009.9999999999998) is representable.  Clip durations  *)
(* and track lengths are whole milliseconds, as len() of an AudioSegment.  *)
(***************************************************************************)
EXTENDS Integers, Sequences, FiniteSets, TLC

(* ------------------------------ bounds -------------------------------- *)
MaxSegs == 2

(* ------------------------- program constants -------------------------- *)
NumDownloadStrategies == 3
NumExtractCommands == 3
MinArtifactBytes == 1000
MaxSpeedFactor == 3
FadeThresholdMs == 100
SpeedupChunkMs == 150
SpeedupCrossfadeMs == 25

(* ------------------------- input universes ---------------------------- *)
TicksPerMs == 4
\* products t*1000 in ticks: 0 ms, and 99.75 ms (just below a whole ms)
SlotTimes == {0, 399}
\* decoded lengths (ms) of the synthesized clips
ClipDurations == {0, 50, 99, 200, 297, 400}
\* file sizes in bytes: empty, below the threshold, above it
FileSizes == {0, 500, 5000}

None == "None"
VideoId == "v1"

Blank == <<" ">>
Spoken == <<" ", "h", "i">>
Translated == <<"T">>
SegmentTexts == {Blank, Spoken}

(* ------------------------------ helpers ------------------------------- *)
IsSpace(c) == c = " "

RECURSIVE LStrip(_)
LStrip(s) ==
    IF s = <<>> THEN <<>>
    ELSE IF IsSpace(Head(s)) THEN LStrip(Tail(s)) ELSE s

RECURSIVE RStrip(_)
RStrip(s) ==
    IF s = <<>> THEN <<>>
    ELSE IF IsSpace(s[Len(s)]) THEN RStrip(SubSeq(s, 1, Len(s) - 1)) ELSE s

\* str.strip()
Strip(s) == RStrip(LStrip(s))

Max(a, b) == IF a >= b THEN a ELSE b
Min(a, b) == IF a <= b THEN a ELSE b

RECURSIVE MaxEnd(_)
\* max(seg['end'] for seg in translated_segments), in ticks
MaxEnd(segs) ==
    IF Len(segs) = 1 THEN segs[1].end
    ELSE Max(segs[1].end, MaxEnd(Tail(segs)))

\* int(x) of a non-negative product: truncation to whole milliseconds
ToMs(t) == t \div TicksPerMs

\* AudioSegment.silent(duration=int(total_duration)): the empty track
SilentTrack(ms) == [len |-> ms, overlays |-> <<>>]

\* lines 341-345: the clip is faded when longer than 100 ms and overlaid at
\* `position`; pydub's overlay mixes it into the track and returns a segment
\* of the track's own length
Overlay_Prepend(tr, clipMs, pos, i) ==
    [len |-> tr.len,
     overlays |-> <<[seg |-> i, pos |-> pos, dur |-> clipMs,
                     faded |-> clipMs > FadeThresholdMs]>> \o tr.overlays]
Overlay(tr, clipMs, pos, i) ==
    [len |-> tr.len,
     overlays |-> Append(tr.overlays,
                         [seg |-> i, pos |-> pos, dur |-> clipMs,
                          faded |-> clipMs > FadeThresholdMs])]

CeilDiv(a, b) == (a + b - 1) \div b

\* speech_audio.speedup(playback_speed = d / s) for d > s > 0 (pydub.effects):
\* the clip is cut into chunks of chunk+rm ms, rm-crossfade ms are dropped from
\* the end of every chunk but the last, and the chunks are joined with a
\* crossfade; fewer than two chunks raise.  Result: ok = FALSE when it raises,
\* else the length of the returned clip.  The quotients are exact here; pydub
\* computes them in floats, which for a few pairs (d, s), none of them in
\* ClipDurations x SlotTimes, gives a chunk one millisecond shorter.
Speedup(d, s) ==
    LET fast   == d >= 2 * s
        rm     == IF fast THEN SpeedupChunkMs
                  ELSE (SpeedupChunkMs * (d - s)) \div s
        chunk  == IF fast THEN (SpeedupChunkMs * s) \div (d - s)
                  ELSE SpeedupChunkMs
        xfade  == Min(SpeedupCrossfadeMs, rm - 1)
        n      == CeilDiv(d, chunk + rm)
    IN  IF n < 2 THEN [ok |-> FALSE, dur |-> d]
        ELSE [ok |-> TRUE,
              dur |-> d - (n - 1) * (rm - xfade) - (n - 2) * xfade]

\* lines 326-338: the duration reconciliation of one clip of d ms against a
\* slot of s ms.  ok = FALSE: an exception leaves the try block of the segment.
Reconcile_NoSlotCheck(d, s) ==
    IF d > s
    THEN IF d <= MaxSpeedFactor * s /\ s > 0
         THEN Speedup(d, s)
         ELSE [ok |-> TRUE, dur |-> s]
    ELSE IF d < s THEN [ok |-> TRUE, dur |-> d + (s - d)]
    ELSE [ok |-> TRUE, dur |-> d]
Reconcile_NoCut(d, s) ==
    IF d > s /\ s > 0
    THEN Speedup(d, s)
    ELSE IF d < s THEN [ok |-> TRUE, dur |-> d + (s - d)]
    ELSE [ok |-> TRUE, dur |-> d]
Reconcile_NoPad(d, s) ==
    IF d > s /\ s > 0
    THEN IF d <= MaxSpeedFactor * s
         THEN Speedup(d, s)
         ELSE [ok |-> TRUE, dur |-> s]
    ELSE [ok |-> TRUE, dur |-> d]
Reconcile(d, s) ==
    IF d > s /\ s > 0
    THEN IF d <= MaxSpeedFactor * s
         THEN Speedup(d, s)
         ELSE [ok |-> TRUE, dur |-> s]
    ELSE IF d < s THEN [ok |-> TRUE, dur |-> d + (s - d)]
    ELSE [ok |-> TRUE, dur |-> d]

\* a file of the run: dir is "temp" or "out", name is its kind, idx numbers
\* the speech files, owner is the video id its name carries ("" for none)
File(dir, owner, kind, idx, size) ==
    [dir |-> dir, owner |-> owner, kind |-> kind, idx |-> idx, size |-> size]

SamePath(f, g) ==
    f.dir = g.dir /\ f.owner = g.owner /\ f.kind = g.kind /\ f.idx = g.idx

\* writing a file replaces what was at its path
WriteFile(fs, f) == {g \in fs : ~SamePath(g, f)} \cup {f}

\* the three glob patterns of _clean_temp_files, over temp_dir
MatchesCleanup(f, vid) ==
    f.dir = "temp" /\ (f.owner = vid \/ f.kind = "speech")

\* os.path.exists(p) and os.path.getsize(p) > 1000
ValidArtifact_NoSizeCheck(fs, dir, owner, kind) ==
    \E f \in fs : f.dir = dir /\ f.owner = owner /\ f.kind = kind
ValidArtifact(fs, dir, owner, kind) ==
    \E f \in fs : f.dir = dir /\ f.owner = owner /\ f.kind = kind
                  /\ f.size > MinArtifactBytes

StageOrder ==
    <<"Acquiring", "Extracting", "Transcribing", "Translating",
      "Resynthesizing", "Muxing">>

(* ------------------------------- state -------------------------------- *)
VARIABLES
    pc,               \* position of the run
    caller,           \* "pipeline": translate_video; "direct": a direct call
                      \* of create_translated_audio_fixed
    sameDir,          \* output_dir and temp_dir resolve to the same directory
    files,            \* the files on disk (temp_dir and output_dir)
    attempt,          \* index of the strategy the running fallback loop is at
    actualVideoPath,  \* actual_video_path / video_path
    segments,         \* transcription['segments']
    idx,              \* loop index of the running segment loop (1-based)
    translated,       \* translated_segments
    track,            \* final_audio
    successful,       \* successful_segments
    synthResult,      \* what create_translated_audio_fixed returned
    result,           \* what translate_video returned
    attempts,         \* history: the attempts of the running fallback loop
    producer,         \* history: strategy that wrote the artifact handed on
    stages,           \* history: stages entered, in order
    passed,           \* history: stages that returned a validated result
    cleanups,         \* history: calls of _clean_temp_files
    failedAt,         \* history: where the run failed ("" while it has not)
    cleanupsAfterFail, \* history: calls of _clean_temp_files since the failure
    last,             \* history: what the running segment loop did last
    exportedMs,       \* history: length of the exported track (-1: none)
    launch,           \* how the program was started: "cli", "test", or None
                      \* when the class is used by other code
    exitStatus,       \* exit status of the process (-1: it has not exited)
    other             \* position of a second run, of another video, that
                      \* works in the same temp_dir ("idle": there is none)

vars == <<pc, caller, sameDir, files, attempt, actualVideoPath, segments, idx,
          translated, track, successful, synthResult, result, attempts,
          producer, stages, passed, cleanups, failedAt, cleanupsAfterFail,
          last, exportedMs, launch, exitStatus, other>>

Pending == "pending"
TrackPath == "final_audio"
OutputPath == "output"

OutDir == IF sameDir THEN "temp" ELSE "out"

\* _clean_temp_files(video_id): unlink everything the patterns match
CleanTempFiles(fs, vid) == {f \in fs : ~MatchesCleanup(f, vid)}

SortedByStart(segs) ==
    \A a, b \in 1..Len(segs) : a < b => segs[a].start <= segs[b].start

\* what Whisper can return: up to MaxSegs segments, in the order of the
\* audio, none ending before it starts
WhisperSegments ==
    {segs \in UNION {[1..n -> [text : SegmentTexts, start : SlotTimes,
                               end : SlotTimes]] : n \in 0..MaxSegs} :
        /\ SortedByStart(segs)
        /\ \A k \in 1..Len(segs) : segs[k].start <= segs[k].end}

\* what a direct caller can pass to create_translated_audio_fixed
CallerSegments ==
    UNION {[1..n -> [original : {Strip(Spoken)},
                     translated : {Blank, Translated},
                     start : SlotTimes, end : SlotTimes]]
           : n \in 0..MaxSegs}

NoClip == [seg |-> 0, outcome |-> "none", clipMs |-> 0, slotMs |-> 0]

Init ==
    /\ pc = "idle"
    /\ caller = None
    /\ sameDir \in BOOLEAN
    /\ files = {}
    /\ attempt = 0
    /\ actualVideoPath = None
    /\ segments = <<>>
    /\ idx = 0
    /\ translated = <<>>
    /\ track = SilentTrack(0)
    /\ successful = 0
    /\ synthResult = Pending
    /\ result = Pending
    /\ attempts = <<>>
    /\ producer = 0
    /\ stages = <<>>
    /\ passed = <<>>
    /\ cleanups = 0
    /\ failedAt = ""
    /\ cleanupsAfterFail = 0
    /\ last = NoClip
    /\ exportedMs = -1
    /\ launch = None
    /\ exitStatus = -1
    /\ other = "idle"

\* a stage failed by its result: translate_video executes `return None`
ReturnNone(stage) ==
    /\ pc' = "done"
    /\ result' = None
    /\ failedAt' = stage

(* ---------------- translate_video / download_video_robust ------------- *)
\* lines 418-434, 54-88: the run starts, the temp files are cleaned, the
\* download loop is entered
StartTranslateVideo ==
    /\ pc = "idle"
    /\ caller' = "pipeline"
    /\ files' = CleanTempFiles(files, VideoId)
    /\ cleanups' = cleanups + 1
    /\ attempt' = 1
    /\ attempts' = <<>>
    /\ stages' = Append(stages, "Acquiring")
    /\ pc' = "download"
    /\ UNCHANGED <<sameDir, actualVideoPath, segments, idx, translated, track,
                   successful, synthResult, result, producer, passed, failedAt,
                   cleanupsAfterFail, last, exportedMs>>
    /\ UNCHANGED <<launch, exitStatus, other>>

\* what one pass of a fallback loop does besides trying: `slept` is the
\* time.sleep(1) of line 108, `warned` a logger.warning naming the reason
\* (lines 106, 163, 166, 169)
LogAttempt(outcome, slept, warned) ==
    attempts' = Append(attempts,
                       [strategy |-> attempt, outcome |-> outcome,
                        slept |-> slept, warned |-> warned])

\* lines 94-96, 105-109: yt-dlp raises; sleep one second, next strategy
DownloadAttemptRaises ==
    /\ pc = "download"
    /\ attempt <= NumDownloadStrategies
    /\ actualVideoPath' = None
    /\ LogAttempt("raised", TRUE, TRUE)
    /\ attempt' = attempt + 1
    /\ UNCHANGED <<pc, caller, sameDir, files, segments, idx, translated, track,
                   successful, synthResult, result, producer, stages, passed,
                   cleanups, failedAt, cleanupsAfterFail, last, exportedMs>>
    /\ UNCHANGED <<launch, exitStatus, other>>

\* lines 94-103: yt-dlp returns a path whose file is missing or too small
DownloadAttemptInvalid ==
    /\ pc = "download"
    /\ attempt <= NumDownloadStrategies
    /\ \/ files' = files
       \/ \E size \in FileSizes :
             files' = WriteFile(files, File("temp", VideoId, "video", 0, size))
    /\ ~ValidArtifact(files', "temp", VideoId, "video")
    /\ actualVideoPath' = None
    /\ LogAttempt("invalid", FALSE, FALSE)
    /\ attempt' = attempt + 1
    /\ UNCHANGED <<pc, caller, sameDir, segments, idx, translated, track,
                   successful, synthResult, result, producer, stages, passed,
                   cleanups, failedAt, cleanupsAfterFail, last, exportedMs>>
    /\ UNCHANGED <<launch, exitStatus, other>>

\* after a validated download: `break` leaves the loop
AfterValidDownload_NoBreak == attempt + 1
AfterValidDownload == NumDownloadStrategies + 1

\* lines 94-101: yt-dlp returns a path whose file passes the size check
DownloadAttemptValid ==
    /\ pc = "download"
    /\ attempt <= NumDownloadStrategies
    /\ \E size \in FileSizes :
          files' = WriteFile(files, File("temp", VideoId, "video", 0, size))
    /\ ValidArtifact(files', "temp", VideoId, "video")
    /\ actualVideoPath' = "video"
    /\ producer' = attempt
    /\ LogAttempt("valid", FALSE, FALSE)
    /\ passed' = IF "Acquiring" \in {passed[k] : k \in 1..Len(passed)}
                 THEN passed ELSE Append(passed, "Acquiring")
    /\ attempt' = AfterValidDownload
    /\ UNCHANGED <<pc, caller, sameDir, segments, idx, translated, track,
                   successful, synthResult, result, stages, cleanups, failedAt,
                   cleanupsAfterFail, last, exportedMs>>
    /\ UNCHANGED <<launch, exitStatus, other>>

\* lines 111-113, 435-436: every strategy failed
DownloadFailed ==
    /\ pc = "download"
    /\ attempt > NumDownloadStrategies
    /\ actualVideoPath = None
    /\ ReturnNone("Acquiring")
    /\ UNCHANGED <<caller, sameDir, files, attempt, actualVideoPath, segments,
                   idx, translated, track, successful, synthResult, attempts,
                   producer, stages, passed, cleanups, cleanupsAfterFail, last, exportedMs>>
    /\ UNCHANGED <<launch, exitStatus, other>>

\* lines 111, 116, 120-145: the video is handed to _extract_audio_robust
EnterExtract_Unchecked ==
    /\ pc = "download"
    /\ attempt > NumDownloadStrategies
    /\ pc' = "extract"
    /\ attempt' = 1
    /\ attempts' = <<>>
    /\ producer' = 0
    /\ stages' = Append(stages, "Extracting")
    /\ UNCHANGED <<caller, sameDir, files, actualVideoPath, segments, idx,
                   translated, track, successful, synthResult, result, passed,
                   cleanups, failedAt, cleanupsAfterFail, last, exportedMs>>
    /\ UNCHANGED <<launch, exitStatus, other>>
EnterExtract ==
    /\ pc = "download"
    /\ attempt > NumDownloadStrategies
    /\ actualVideoPath # None
    /\ pc' = "extract"
    /\ attempt' = 1
    /\ attempts' = <<>>
    /\ producer' = 0
    /\ stages' = Append(stages, "Extracting")
    /\ UNCHANGED <<caller, sameDir, files, actualVideoPath, segments, idx,
                   translated, track, successful, synthResult, result, passed,
                   cleanups, failedAt, cleanupsAfterFail, last, exportedMs>>
    /\ UNCHANGED <<launch, exitStatus, other>>

(* ------------------------- _extract_audio_robust ---------------------- *)
\* lines 162-170: ffmpeg exits non-zero, times out or cannot be started; a
\* partial audio file may be left at audio_path
ExtractAttemptFails ==
    /\ pc = "extract"
    /\ attempt <= NumExtractCommands
    /\ \/ files' = files
       \/ files' = WriteFile(files, File("temp", VideoId, "audio", 0, 500))
    /\ \E reason \in {"error", "timeout"} : LogAttempt(reason, FALSE, TRUE)
    /\ attempt' = attempt + 1
    /\ UNCHANGED <<pc, caller, sameDir, actualVideoPath, segments, idx,
                   translated, track, successful, synthResult, result,
                   producer, stages, passed, cleanups, failedAt,
                   cleanupsAfterFail, last, exportedMs>>
    /\ UNCHANGED <<launch, exitStatus, other>>

\* lines 149-158: ffmpeg exits 0 (it has rewritten audio_path, -y), the file
\* fails the size check, the loop goes on
ExtractAttemptInvalid ==
    /\ pc = "extract"
    /\ attempt <= NumExtractCommands
    /\ \E size \in FileSizes :
          files' = WriteFile(files, File("temp", VideoId, "audio", 0, size))
    /\ ~ValidArtifact(files', "temp", VideoId, "audio")
    /\ LogAttempt("invalid", FALSE, FALSE)
    /\ attempt' = attempt + 1
    /\ UNCHANGED <<pc, caller, sameDir, actualVideoPath, segments, idx,
                   translated, track, successful, synthResult, result,
                   producer, stages, passed, cleanups, failedAt,
                   cleanupsAfterFail, last, exportedMs>>
    /\ UNCHANGED <<launch, exitStatus, other>>

\* lines 149-160, 435: ffmpeg exits 0 and the file passes the size check:
\* (video_path, audio_path) is returned at once
ExtractAttemptValid ==
    /\ pc = "extract"
    /\ attempt <= NumExtractCommands
    /\ \E size \in FileSizes :
          files' = WriteFile(files, File("temp", VideoId, "audio", 0, size))
    /\ ValidArtifact(files', "temp", VideoId, "audio")
    /\ producer' = attempt
    /\ LogAttempt("valid", FALSE, FALSE)
    /\ passed' = Append(passed, "Extracting")
    /\ pc' = "transcribe"
    /\ UNCHANGED <<caller, sameDir, attempt, actualVideoPath, segments, idx,
                   translated, track, successful, synthResult, result, stages,
                   cleanups, failedAt, cleanupsAfterFail, last, exportedMs>>
    /\ UNCHANGED <<launch, exitStatus, other>>

\* lines 172-173, 435-436: every command failed
ExtractFailed ==
    /\ pc = "extract"
    /\ attempt > NumExtractCommands
    /\ ReturnNone("Extracting")
    /\ UNCHANGED <<caller, sameDir, files, attempt, actualVideoPath, segments,
                   idx, translated, track, successful, synthResult, attempts,
                   producer, stages, passed, cleanups, cleanupsAfterFail, last, exportedMs>>
    /\ UNCHANGED <<launch, exitStatus, other>>

(* ----------------------------- transcribe_audio ----------------------- *)
EnterStage(stage) ==
    /\ stages' = Append(stages, stage)
    /\ attempt' = 0
    /\ attempts' = <<>>
    /\ producer' = 0

\* lines 179-206, 440-442: loading the audio or Whisper raises: None
TranscribeFails ==
    /\ pc = "transcribe"
    /\ EnterStage("Transcribing")
    /\ ReturnNone("Transcribing")
    /\ UNCHANGED <<caller, sameDir, files, actualVideoPath, segments, idx,
                   translated, track, successful, synthResult, passed,
                   cleanups, cleanupsAfterFail, last, exportedMs>>
    /\ UNCHANGED <<launch, exitStatus, other>>

\* lines 189-202, 440-442: Whisper finds no speech segment
TranscribeEmpty ==
    /\ pc = "transcribe"
    /\ EnterStage("Transcribing")
    /\ segments' = <<>>
    /\ ReturnNone("Transcribing")
    /\ UNCHANGED <<caller, sameDir, files, actualVideoPath, idx, translated,
                   track, successful, synthResult, passed, cleanups,
                   cleanupsAfterFail, last, exportedMs>>
    /\ UNCHANGED <<launch, exitStatus, other>>

\* lines 189-202, 440, 445, 210-215: Whisper returns segments; they are handed
\* to translate_segments
TranscribeOk ==
    /\ pc = "transcribe"
    /\ \E segs \in WhisperSegments :
          /\ segs # <<>>
          /\ segments' = segs
    /\ stages' = stages \o <<"Transcribing", "Translating">>
    /\ passed' = Append(passed, "Transcribing")
    /\ attempt' = 0
    /\ attempts' = <<>>
    /\ producer' = 0
    /\ translated' = <<>>
    /\ idx' = 1
    /\ pc' = "translate"
    /\ UNCHANGED <<caller, sameDir, files, actualVideoPath, track, successful,
                   synthResult, result, cleanups, failedAt, cleanupsAfterFail, last, exportedMs>>
    /\ UNCHANGED <<launch, exitStatus, other>>

(* ---------------------------- translate_segments ---------------------- *)
\* one entry of translated_segments
Entry(seg, text) ==
    [original |-> Strip(seg.text), translated |-> text,
     start |-> seg.start, end |-> seg.end]

\* one iteration of the loop of lines 214-255
TranslateStep(outcome, newList) ==
    /\ translated' = newList
    /\ last' = [seg |-> idx, outcome |-> outcome, clipMs |-> 0, slotMs |-> 0]
    /\ idx' = idx + 1
    /\ UNCHANGED <<pc, caller, sameDir, files, attempt, actualVideoPath,
                   segments, track, successful, synthResult, result, attempts,
                   producer, stages, passed, cleanups, failedAt,
                   cleanupsAfterFail, exportedMs>>
    /\ UNCHANGED <<launch, exitStatus, other>>

\* lines 216-218: the stripped text is empty
TranslateSkipBlank ==
    /\ pc = "translate"
    /\ idx <= Len(segments)
    /\ Strip(segments[idx].text) = <<>>
    /\ TranslateStep("blank", translated)

\* lines 227-237: the translator returns a new text
TranslateOk ==
    /\ pc = "translate"
    /\ idx <= Len(segments)
    /\ Strip(segments[idx].text) # <<>>
    /\ TranslateStep("translated",
                     Append(translated, Entry(segments[idx], Translated)))

\* lines 230, 238-245: the translator returns nothing or the text unchanged
TranslateUnchanged ==
    /\ pc = "translate"
    /\ idx <= Len(segments)
    /\ Strip(segments[idx].text) # <<>>
    /\ TranslateStep("unchanged",
                     Append(translated,
                            Entry(segments[idx], Strip(segments[idx].text))))

\* lines 247-255: the translator raises
TranslateRaises_Drops ==
    /\ pc = "translate"
    /\ idx <= Len(segments)
    /\ Strip(segments[idx].text) # <<>>
    /\ TranslateStep("tr_raised", translated)
TranslateRaises ==
    /\ pc = "translate"
    /\ idx <= Len(segments)
    /\ Strip(segments[idx].text) # <<>>
    /\ TranslateStep("tr_raised",
                     Append(translated,
                            Entry(segments[idx], Strip(segments[idx].text))))

\* lines 257-258, 449-451: no entry was produced
TranslateEmpty ==
    /\ pc = "translate"
    /\ idx > Len(segments)
    /\ translated = <<>>
    /\ ReturnNone("Translating")
    /\ UNCHANGED <<caller, sameDir, files, attempt, actualVideoPath, segments,
                   idx, translated, track, successful, synthResult, attempts,
                   producer, stages, passed, cleanups, cleanupsAfterFail, last, exportedMs>>
    /\ UNCHANGED <<launch, exitStatus, other>>

\* lines 257-258, 449, 454: the entries are handed to
\* create_translated_audio_fixed
TranslateDone ==
    /\ pc = "translate"
    /\ idx > Len(segments)
    /\ translated # <<>>
    /\ passed' = Append(passed, "Translating")
    /\ stages' = Append(stages, "Resynthesizing")
    /\ pc' = "synth_start"
    /\ UNCHANGED <<caller, sameDir, files, attempt, actualVideoPath, segments,
                   idx, translated, track, successful, synthResult, result,
                   attempts, producer, cleanups, failedAt, cleanupsAfterFail, last, exportedMs>>
    /\ UNCHANGED <<launch, exitStatus, other>>

(* -------------------- create_translated_audio_fixed ------------------- *)
\* a caller other than translate_video calls the method with a list of its own
CallCreateAudio ==
    /\ pc = "idle"
    /\ launch = None
    /\ caller' = "direct"
    /\ \E segs \in CallerSegments : translated' = segs
    /\ pc' = "synth_start"
    /\ UNCHANGED <<sameDir, files, attempt, actualVideoPath, segments, idx,
                   track, successful, synthResult, result, attempts, producer,
                   stages, passed, cleanups, failedAt, cleanupsAfterFail,
                   last, exportedMs>>
    /\ UNCHANGED <<launch, exitStatus, other>>

\* lines 321-323: start_ms, end_ms and segment_duration of an entry
StartMs(e) == ToMs(e.start)
EndMs(e) == ToMs(e.end)
SlotMs(e) == EndMs(e) - StartMs(e)

\* temp_dir / speech_{i:04d}.mp3
SpeechFile(i, size) == File("temp", "", "speech", i, size)

\* temp_speech_file.unlink(missing_ok=True)
Unlink(fs, f) == {g \in fs : ~SamePath(g, f)}

\* create_translated_audio_fixed returns `value` (the segment loop is over,
\* its history is dropped): to the direct caller, or to
\* translate_video (lines 459-464), which returns None or goes on to muxing
SynthReturns(value) ==
    /\ synthResult' = value
    /\ last' = NoClip
    /\ IF caller = "direct"
       THEN /\ pc' = "done"
            /\ UNCHANGED <<result, failedAt, stages, passed>>
       ELSE IF value = None
       THEN /\ ReturnNone("Resynthesizing")
            /\ UNCHANGED <<stages, passed>>
       ELSE /\ pc' = "merge"
            /\ passed' = Append(passed, "Resynthesizing")
            /\ stages' = Append(stages, "Muxing")
            /\ UNCHANGED <<result, failedAt>>

\* lines 264-266: no segments to process
SynthNoSegments ==
    /\ pc = "synth_start"
    /\ translated = <<>>
    /\ SynthReturns(None)
    /\ UNCHANGED <<caller, sameDir, files, attempt, actualVideoPath, segments,
                   idx, translated, track, successful, attempts, producer,
                   cleanups, cleanupsAfterFail, exportedMs>>
    /\ UNCHANGED <<launch, exitStatus, other>>

\* lines 268-275: the silent track is allocated and the segment loop entered
SynthStart ==
    /\ pc = "synth_start"
    /\ translated # <<>>
    /\ track' = SilentTrack(ToMs(MaxEnd(translated)))
    /\ successful' = 0
    /\ idx' = 1
    /\ last' = NoClip
    /\ pc' = "synth_loop"
    /\ UNCHANGED <<caller, sameDir, files, attempt, actualVideoPath, segments,
                   translated, synthResult, result, attempts, producer, stages,
                   passed, cleanups, failedAt, cleanupsAfterFail, exportedMs>>
    /\ UNCHANGED <<launch, exitStatus, other>>

\* one iteration of the segment loop that overlays nothing
SynthSkip_Break(outcome, clipMs, newFiles) ==
    /\ pc = "synth_loop"
    /\ idx <= Len(translated)
    /\ files' = newFiles
    /\ last' = [seg |-> idx, outcome |-> outcome, clipMs |-> clipMs,
                slotMs |-> SlotMs(translated[idx])]
    /\ idx' = Len(translated) + 1
    /\ UNCHANGED <<pc, caller, sameDir, attempt, actualVideoPath, segments,
                   translated, track, successful, synthResult, result,
                   attempts, producer, stages, passed, cleanups, failedAt,
                   cleanupsAfterFail, exportedMs>>
    /\ UNCHANGED <<launch, exitStatus, other>>
SynthSkip(outcome, clipMs, newFiles) ==
    /\ pc = "synth_loop"
    /\ idx <= Len(translated)
    /\ files' = newFiles
    /\ last' = [seg |-> idx, outcome |-> outcome, clipMs |-> clipMs,
                slotMs |-> SlotMs(translated[idx])]
    /\ idx' = idx + 1
    /\ UNCHANGED <<pc, caller, sameDir, attempt, actualVideoPath, segments,
                   translated, track, successful, synthResult, result,
                   attempts, producer, stages, passed, cleanups, failedAt,
                   cleanupsAfterFail, exportedMs>>
    /\ UNCHANGED <<launch, exitStatus, other>>

\* lines 276-278: the stripped translated text is empty
SynthSkipBlank ==
    /\ pc = "synth_loop"
    /\ idx <= Len(translated)
    /\ Strip(translated[idx].translated) = <<>>
    /\ SynthSkip("blank", 0, files)

HasText == pc = "synth_loop" /\ idx <= Len(translated)
           /\ Strip(translated[idx].translated) # <<>>

\* lines 293-301, 308-310: gTTS raises, no file is written
SynthTtsRaises ==
    /\ HasText
    /\ SynthSkip("tts_raised", 0, files)

\* lines 301-306: gTTS returns but the file is empty
SynthTtsNoFile ==
    /\ HasText
    /\ SynthSkip("no_file", 0, WriteFile(files, SpeechFile(idx, 0)))

\* lines 313-318: the file cannot be decoded; it is unlinked
SynthLoadFails ==
    /\ HasText
    /\ SynthSkip("load_failed", 0, Unlink(files, SpeechFile(idx, 0)))

\* lines 320-333, 351-353: the clip is decoded, speedup raises, the except
\* clause of the segment logs and continues; the speech file stays
SynthProcessRaises ==
    /\ HasText
    /\ \E d \in ClipDurations :
          /\ ~Reconcile(d, SlotMs(translated[idx])).ok
          /\ SynthSkip("process_raised", d,
                       WriteFile(files, SpeechFile(idx, 500)))

\* lines 320-345, 351-353: the clip is decoded and reconciled, the fade or
\* the overlay raises before final_audio is assigned; the except clause of
\* the segment logs and continues; the speech file stays.  The length of the
\* clip plays no part afterwards and is not recorded.
SynthOverlayRaises ==
    /\ HasText
    /\ \E d \in ClipDurations : Reconcile(d, SlotMs(translated[idx])).ok
    /\ SynthSkip("overlay_raised", 0, WriteFile(files, SpeechFile(idx, 500)))

\* lines 320-349: the clip is decoded, reconciled with its slot, faded,
\* overlaid at start_ms and counted; the speech file is unlinked
SynthPlace ==
    /\ HasText
    /\ \E d \in ClipDurations :
          LET e == translated[idx]
              r == Reconcile(d, SlotMs(e))
          IN  /\ r.ok
              /\ track' = Overlay(track, r.dur, StartMs(e), idx)
              /\ last' = [seg |-> idx, outcome |-> "placed", clipMs |-> d,
                          slotMs |-> SlotMs(e)]
    /\ successful' = successful + 1
    /\ files' = Unlink(files, SpeechFile(idx, 0))
    /\ idx' = idx + 1
    /\ UNCHANGED <<pc, caller, sameDir, attempt, actualVideoPath, segments,
                   translated, synthResult, result, attempts, producer, stages,
                   passed, cleanups, failedAt, cleanupsAfterFail, exportedMs>>
    /\ UNCHANGED <<launch, exitStatus, other>>

LoopOver == pc = "synth_loop" /\ idx > Len(translated)

\* lines 355-357: no clip was overlaid
SynthNoneSucceeded ==
    /\ LoopOver
    /\ successful = 0
    /\ SynthReturns(None)
    /\ UNCHANGED <<caller, sameDir, files, attempt, actualVideoPath, segments,
                   idx, translated, track, successful, attempts, producer,
                   cleanups, cleanupsAfterFail, exportedMs>>
    /\ UNCHANGED <<launch, exitStatus, other>>

\* lines 359-371: the track is exported and its path returned
SynthExport_Unchecked ==
    /\ LoopOver
    /\ files' = WriteFile(files, File("temp", VideoId, "final", 0, 5000))
    /\ exportedMs' = track.len
    /\ SynthReturns(TrackPath)
    /\ UNCHANGED <<caller, sameDir, attempt, actualVideoPath, segments, idx,
                   translated, track, successful, attempts, producer, cleanups,
                   cleanupsAfterFail>>
    /\ UNCHANGED <<launch, exitStatus, other>>
SynthExport ==
    /\ LoopOver
    /\ successful # 0
    /\ files' = WriteFile(files, File("temp", VideoId, "final", 0, 5000))
    /\ exportedMs' = track.len
    /\ SynthReturns(TrackPath)
    /\ UNCHANGED <<caller, sameDir, attempt, actualVideoPath, segments, idx,
                   translated, track, successful, attempts, producer, cleanups,
                   cleanupsAfterFail>>
    /\ UNCHANGED <<launch, exitStatus, other>>

\* lines 363-368, 373-375: the export raises, or leaves an empty file
SynthExportFails ==
    /\ LoopOver
    /\ successful # 0
    /\ \E empty \in BOOLEAN :
          files' = IF empty
                   THEN WriteFile(files, File("temp", VideoId, "final", 0, 0))
                   ELSE files
    /\ SynthReturns(None)
    /\ UNCHANGED <<caller, sameDir, attempt, actualVideoPath, segments, idx,
                   translated, track, successful, attempts, producer, cleanups,
                   cleanupsAfterFail, exportedMs>>
    /\ UNCHANGED <<launch, exitStatus, other>>

(* ----------------- merge_video_audio / end of translate_video --------- *)
OutputFile(size) == File(OutDir, VideoId, OutputPath, 0, size)

\* lines 381-406, 470-471: ffmpeg fails (non-zero exit, timeout, cannot start)
\* or its output fails the size check; a partial output may be left
MergeFails ==
    /\ pc = "merge"
    /\ \/ files' = files
       \/ files' = WriteFile(files, OutputFile(500))
    /\ ~ValidArtifact(files', OutDir, VideoId, OutputPath)
    /\ ReturnNone("Muxing")
    /\ UNCHANGED <<caller, sameDir, attempt, actualVideoPath, segments, idx,
                   translated, track, successful, synthResult, attempts,
                   producer, stages, passed, cleanups, cleanupsAfterFail, last,
                   exportedMs>>
    /\ UNCHANGED <<launch, exitStatus, other>>

\* lines 381-393, 470: ffmpeg exits 0 and the output passes the size check
MergeOk ==
    /\ pc = "merge"
    /\ \E size \in FileSizes : files' = WriteFile(files, OutputFile(size))
    /\ ValidArtifact(files', OutDir, VideoId, OutputPath)
    /\ passed' = Append(passed, "Muxing")
    /\ pc' = "merged"
    /\ UNCHANGED <<caller, sameDir, attempt, actualVideoPath, segments, idx,
                   translated, track, successful, synthResult, result,
                   attempts, producer, stages, cleanups, failedAt,
                   cleanupsAfterFail, last, exportedMs>>
    /\ UNCHANGED <<launch, exitStatus, other>>

OutputExists(fs) == \E f \in fs : SamePath(f, OutputFile(0))

\* lines 473-484: the temp files are cleaned and the output path returned
FinishSuccess ==
    /\ pc = "merged"
    /\ files' = CleanTempFiles(files, VideoId)
    /\ cleanups' = cleanups + 1
    /\ OutputExists(files')
    /\ result' = OutputPath
    /\ pc' = "done"
    /\ UNCHANGED <<caller, sameDir, attempt, actualVideoPath, segments, idx,
                   translated, track, successful, synthResult, attempts,
                   producer, stages, passed, failedAt, cleanupsAfterFail, last,
                   exportedMs>>
    /\ UNCHANGED <<launch, exitStatus, other>>

\* lines 473-482: the cleanup has removed the output (output_dir is temp_dir),
\* os.path.getsize raises
FinishRaises ==
    /\ pc = "merged"
    /\ files' = CleanTempFiles(files, VideoId)
    /\ cleanups' = cleanups + 1
    /\ ~OutputExists(files')
    /\ failedAt' = "Reporting"
    /\ pc' = "handler"
    /\ UNCHANGED <<caller, sameDir, attempt, actualVideoPath, segments, idx,
                   translated, track, successful, synthResult, result,
                   attempts, producer, stages, passed, cleanupsAfterFail, last,
                   exportedMs>>
    /\ UNCHANGED <<launch, exitStatus, other>>

\* lines 490-493: except Exception: clean the temp files, return None
HandleException ==
    /\ pc = "handler"
    /\ files' = CleanTempFiles(files, VideoId)
    /\ cleanups' = cleanups + 1
    /\ cleanupsAfterFail' = cleanupsAfterFail + 1
    /\ result' = None
    /\ pc' = "done"
    /\ UNCHANGED <<caller, sameDir, attempt, actualVideoPath, segments, idx,
                   translated, track, successful, synthResult, attempts,
                   producer, stages, passed, failedAt, last, exportedMs>>
    /\ UNCHANGED <<launch, exitStatus, other>>

Next ==
    \/ StartTranslateVideo
    \/ DownloadAttemptRaises
    \/ DownloadAttemptInvalid
    \/ DownloadAttemptValid
    \/ DownloadFailed
    \/ EnterExtract
    \/ ExtractAttemptFails
    \/ ExtractAttemptInvalid
    \/ ExtractAttemptValid
    \/ ExtractFailed
    \/ TranscribeFails
    \/ TranscribeEmpty
    \/ TranscribeOk
    \/ TranslateSkipBlank
    \/ TranslateOk
    \/ TranslateUnchanged
    \/ TranslateRaises
    \/ TranslateEmpty
    \/ TranslateDone
    \/ CallCreateAudio
    \/ SynthNoSegments
    \/ SynthStart
    \/ SynthSkipBlank
    \/ SynthTtsRaises
    \/ SynthTtsNoFile
    \/ SynthLoadFails
    \/ SynthProcessRaises
    \/ SynthOverlayRaises
    \/ SynthPlace
    \/ SynthNoneSucceeded
    \/ SynthExport
    \/ SynthExportFails
    \/ MergeFails
    \/ MergeOk
    \/ FinishSuccess
    \/ FinishRaises
    \/ HandleException

Spec == Init /\ [][Next]_vars

(* --------------------------- KeyboardInterrupt ------------------------ *)
\* the value a caller of translate_video sees when the interrupt leaves it
Propagated == "KeyboardInterrupt"

\* the positions of translate_video inside its try block (lines 432-484)
InTry == {"download", "extract", "transcribe", "translate", "synth_start",
          "synth_loop", "merge", "merged"}

\* lines 420-430: the interrupt arrives before the try block is entered; no
\* except clause is around these lines
InterruptBeforeTry ==
    /\ pc = "idle"
    /\ caller' = "pipeline"
    /\ failedAt' = "Interrupted"
    /\ result' = Propagated
    /\ pc' = "done"
    /\ UNCHANGED <<sameDir, files, attempt, actualVideoPath, segments, idx,
                   translated, track, successful, synthResult, attempts,
                   producer, stages, passed, cleanups, cleanupsAfterFail, last,
                   exportedMs>>
    /\ UNCHANGED <<launch, exitStatus, other>>

\* lines 432-484: the interrupt arrives inside the try block; the stage
\* methods catch Exception only, so it reaches `except KeyboardInterrupt`
Interrupt ==
    /\ caller = "pipeline"
    /\ pc \in InTry
    /\ failedAt' = "Interrupted"
    /\ pc' = "interrupted"
    /\ UNCHANGED <<caller, sameDir, files, attempt, actualVideoPath, segments,
                   idx, translated, track, successful, synthResult, result,
                   attempts, producer, stages, passed, cleanups,
                   cleanupsAfterFail, last, exportedMs>>
    /\ UNCHANGED <<launch, exitStatus, other>>

\* lines 486-489: except KeyboardInterrupt: clean the temp files, return None
HandleInterrupt ==
    /\ pc = "interrupted"
    /\ files' = CleanTempFiles(files, VideoId)
    /\ cleanups' = cleanups + 1
    /\ cleanupsAfterFail' = cleanupsAfterFail + 1
    /\ result' = None
    /\ pc' = "done"
    /\ UNCHANGED <<caller, sameDir, attempt, actualVideoPath, segments, idx,
                   translated, track, successful, synthResult, attempts,
                   producer, stages, passed, failedAt, last, exportedMs>>
    /\ UNCHANGED <<launch, exitStatus, other>>

\* lines 487-488, 491-492, 410-412: the interrupt arrives while an except
\* clause of translate_video logs or walks the glob of _clean_temp_files; no
\* clause is around the handlers, the interrupt leaves translate_video
InterruptInHandler ==
    /\ pc \in {"interrupted", "handler"}
    /\ \E done \in SUBSET {f \in files : MatchesCleanup(f, VideoId)} :
          files' = files \ done
    /\ failedAt' = "Interrupted"
    /\ result' = Propagated
    /\ pc' = "done"
    /\ UNCHANGED <<caller, sameDir, attempt, actualVideoPath, segments, idx,
                   translated, track, successful, synthResult, attempts,
                   producer, stages, passed, cleanups, cleanupsAfterFail, last,
                   exportedMs>>
    /\ UNCHANGED <<launch, exitStatus, other>>

\* lines 474, 413-416, 476-484: the interrupt arrives while the cleanup after
\* muxing unlinks a file; the bare `except: pass` swallows it, the file may
\* stay, the cleanup goes on and the output path is returned
FinishSuccessInterrupted ==
    /\ pc = "merged"
    /\ \E f \in {g \in files : MatchesCleanup(g, VideoId)} :
          \E stays \in BOOLEAN :
             files' = CleanTempFiles(files, VideoId)
                         \cup (IF stays THEN {f} ELSE {})
    /\ cleanups' = cleanups + 1
    /\ OutputExists(files')
    /\ failedAt' = "Interrupted"
    /\ result' = OutputPath
    /\ pc' = "done"
    /\ UNCHANGED <<caller, sameDir, attempt, actualVideoPath, segments, idx,
                   translated, track, successful, synthResult, attempts,
                   producer, stages, passed, cleanupsAfterFail, last,
                   exportedMs>>
    /\ UNCHANGED <<launch, exitStatus, other>>

NextInterrupt ==
    \/ Next
    \/ InterruptBeforeTry
    \/ Interrupt
    \/ HandleInterrupt
    \/ InterruptInHandler
    \/ FinishSuccessInterrupted

SpecInterrupt == Init /\ [][NextInterrupt]_vars

(* ------------------------ a tool that never responds ------------------ *)
\* lines 94-96: ydl.extract_info is called with no timeout, in the options
\* (lines 63-86) or around the call: when yt-dlp never returns, the attempt
\* never ends.  The ffmpeg calls carry timeout=120 (line 153) and timeout=300
\* (line 387): a silent ffmpeg is the "timeout" of ExtractAttemptFails and the
\* failure of MergeFails.
DownloadAttemptHangs ==
    /\ pc = "download"
    /\ attempt <= NumDownloadStrategies
    /\ pc' = "blocked"
    /\ UNCHANGED <<caller, sameDir, files, attempt, actualVideoPath, segments,
                   idx, translated, track, successful, synthResult, result,
                   attempts, producer, stages, passed, cleanups, failedAt,
                   cleanupsAfterFail, last, exportedMs>>
    /\ UNCHANGED <<launch, exitStatus, other>>

NextHang ==
    \/ Next
    \/ DownloadAttemptHangs

SpecHang == Init /\ [][NextHang]_vars

(* ------------------------- main / __main__ block ---------------------- *)
InPipeline == caller = "pipeline"
Returned == pc = "done" /\ InPipeline

\* lines 527-529, 556-558, 495-505: started with arguments, main() is called
LaunchCli ==
    /\ pc = "idle"
    /\ launch = None
    /\ launch' = "cli"
    /\ UNCHANGED <<pc, caller, sameDir, files, attempt, actualVideoPath,
                   segments, idx, translated, track, successful, synthResult,
                   result, attempts, producer, stages, passed, cleanups,
                   failedAt, cleanupsAfterFail, last, exportedMs, exitStatus,
                   other>>

\* lines 527-546: started without arguments, test mode
LaunchTest ==
    /\ pc = "idle"
    /\ launch = None
    /\ launch' = "test"
    /\ UNCHANGED <<pc, caller, sameDir, files, attempt, actualVideoPath,
                   segments, idx, translated, track, successful, synthResult,
                   result, attempts, producer, stages, passed, cleanups,
                   failedAt, cleanupsAfterFail, last, exportedMs, exitStatus,
                   other>>

\* the process ends with `status`
Exit(status) ==
    /\ exitStatus' = status
    /\ pc' = "exited"
    /\ UNCHANGED <<caller, sameDir, files, attempt, actualVideoPath, segments,
                   idx, translated, track, successful, synthResult, result,
                   attempts, producer, stages, passed, cleanups, failedAt,
                   cleanupsAfterFail, last, exportedMs, launch, other>>

\* lines 507-513, 558: main() rejects the language code before any run and
\* returns 1
MainRejectsLanguage ==
    /\ pc = "idle"
    /\ launch = "cli"
    /\ Exit(1)

\* lines 516-525, 558: main() returns 0 when translate_video returned a path
\* and 1 otherwise; sys.exit(main())
MainReturns ==
    /\ Returned
    /\ launch = "cli"
    /\ Exit(IF result # None THEN 0 ELSE 1)

\* lines 548-555: test mode prints the outcome and the script ends; no
\* sys.exit is called
TestModeEnds ==
    /\ Returned
    /\ launch = "test"
    /\ Exit(0)

NextMain ==
    \/ Next
    \/ LaunchCli
    \/ LaunchTest
    \/ MainRejectsLanguage
    \/ MainReturns
    \/ TestModeEnds

SpecMain == Init /\ [][NextMain]_vars

(* ------------------- a second run in the same temp_dir ---------------- *)
\* the other run translates another video; its speech file carries an index
\* the first run never writes, so that only a cleanup of the first run can
\* remove it
OtherVideoId == "v2"
OtherSpeechIdx == MaxSegs + 1
OtherVideo == File("temp", OtherVideoId, "video", 0, 5000)
OtherSpeech == SpeechFile(OtherSpeechIdx, 500)

\* lines 56-57, 90-101 in the other run: it cleans for its own video id and
\* downloads its video into temp_dir
OtherDownloads ==
    /\ other = "idle"
    /\ files' = WriteFile(CleanTempFiles(files, OtherVideoId), OtherVideo)
    /\ other' = "has_video"
    /\ UNCHANGED <<pc, caller, sameDir, attempt, actualVideoPath, segments,
                   idx, translated, track, successful, synthResult, result,
                   attempts, producer, stages, passed, cleanups, failedAt,
                   cleanupsAfterFail, last, exportedMs, launch, exitStatus>>

\* lines 287-301 in the other run: gTTS saves temp_dir/speech_NNNN.mp3
OtherWritesSpeech ==
    /\ other = "has_video"
    /\ files' = WriteFile(files, OtherSpeech)
    /\ other' = "has_speech"
    /\ UNCHANGED <<pc, caller, sameDir, attempt, actualVideoPath, segments,
                   idx, translated, track, successful, synthResult, result,
                   attempts, producer, stages, passed, cleanups, failedAt,
                   cleanupsAfterFail, last, exportedMs, launch, exitStatus>>

\* lines 313-318 or 313-349 in the other run: it loads the speech file (or
\* fails to, when the file is gone) and unlinks it
OtherLoadsSpeech ==
    /\ other = "has_speech"
    /\ files' = Unlink(files, OtherSpeech)
    /\ other' = "loaded"
    /\ UNCHANGED <<pc, caller, sameDir, attempt, actualVideoPath, segments,
                   idx, translated, track, successful, synthResult, result,
                   attempts, producer, stages, passed, cleanups, failedAt,
                   cleanupsAfterFail, last, exportedMs, launch, exitStatus>>

\* the files the other run has written and will still read
OtherNeeds ==
    IF other = "has_video" THEN {OtherVideo}
    ELSE IF other = "has_speech" THEN {OtherVideo, OtherSpeech}
    ELSE IF other = "loaded" THEN {OtherVideo}
    ELSE {}

NextTwoRuns ==
    \/ Next
    \/ OtherDownloads
    \/ OtherWritesSpeech
    \/ OtherLoadsSpeech

SpecTwoRuns == Init /\ [][NextTwoRuns]_vars

(* ------------------------------ properties ---------------------------- *)
PassedStages == {passed[k] : k \in 1..Len(passed)}
TempFiles == {f \in files : f.dir = "temp"}
LastOverlay == track.overlays[Len(track.overlays)]
Reconciled == last.outcome \in {"placed", "process_raised"}

\* C1: translate_video returns the output path only after all six stages
\* returned a validated result and the muxed output passed the size check; a
\* run in which a stage failed ends with None and never with a path.
C1_SuccessOnlyAfterAllStages ==
    /\ result = OutputPath =>
          /\ passed = StageOrder
          /\ failedAt = ""
          /\ \E f \in files : /\ SamePath(f, OutputFile(0))
                              /\ f.size > MinArtifactBytes
    /\ failedAt # "" => result # OutputPath
    /\ (Returned /\ failedAt # "") => result = None
    /\ (Returned /\ passed # StageOrder) => result = None

C1_Witness == Returned /\ result = OutputPath /\ passed = StageOrder

\* C2: the stages entered are a prefix of Acquiring, Extracting, Transcribing,
\* Translating, Resynthesizing, Muxing (none skipped, none repeated), and a
\* stage is entered only when the stage before it has returned a validated
\* result.
C2_StagesInOrder ==
    /\ Len(stages) <= Len(StageOrder)
    /\ \A k \in 1..Len(stages) : stages[k] = StageOrder[k]
    /\ \A k \in 2..Len(stages) : StageOrder[k - 1] \in PassedStages

C2_Witness == stages = StageOrder /\ pc = "merge"

\* C3: in both fallback loops the strategies are attempted in list order, a
\* strategy is attempted only if every earlier one failed (so none after a
\* validated one), and the artifact handed on was written by the one strategy
\* that validated, the lowest-indexed one.
HandsOnArtifact ==
    \/ pc = "download" /\ attempt > NumDownloadStrategies
                       /\ actualVideoPath # None
    \/ pc = "transcribe"

C3_FirstValidatedWins ==
    /\ \A k \in 1..Len(attempts) : attempts[k].strategy = k
    /\ \A k \in 1..(Len(attempts) - 1) : attempts[k].outcome # "valid"
    /\ HandsOnArtifact =>
          /\ attempts # <<>>
          /\ attempts[Len(attempts)].outcome = "valid"
          /\ producer = Len(attempts)
    /\ (pc \in {"download", "extract"} /\ attempt <= NumDownloadStrategies)
          => attempt = Len(attempts) + 1

C3_Witness ==
    /\ pc = "transcribe"
    /\ Len(attempts) = 2
    /\ attempts[1].outcome = "invalid"
    /\ producer = 2

\* C4 (as claimed): a clip with 1 < d/s <= 3 (s > 0) is placed with a duration
\* within 1 ms of its slot duration s.
C4_StretchedToSlot ==
    (Reconciled /\ last.slotMs > 0 /\ last.clipMs > last.slotMs
                /\ last.clipMs <= MaxSpeedFactor * last.slotMs)
    => /\ last.outcome = "placed"
       /\ LastOverlay.dur - last.slotMs \in {-1, 0, 1}

\* C5: a clip with d/s > 3 (s > 0) is cut to its first s milliseconds: it is
\* placed with duration exactly s.
C5_TruncatedToSlot ==
    (Reconciled /\ last.slotMs > 0
                /\ last.clipMs > MaxSpeedFactor * last.slotMs)
    => /\ last.outcome = "placed"
       /\ LastOverlay.seg = last.seg
       /\ LastOverlay.dur = last.slotMs
       /\ LastOverlay.pos + LastOverlay.dur <= track.len

C5_Witness ==
    /\ last.outcome = "placed"
    /\ last.slotMs > 0
    /\ last.clipMs > MaxSpeedFactor * last.slotMs
    /\ LastOverlay.dur = last.slotMs

\* C6: a clip shorter than its slot is placed padded to exactly the slot
\* duration s; a clip with d = s is placed with its duration unchanged.
C6_PaddedToSlot ==
    (Reconciled /\ last.clipMs <= last.slotMs)
    => /\ last.outcome = "placed"
       /\ LastOverlay.seg = last.seg
       /\ LastOverlay.dur = last.slotMs
       /\ LastOverlay.pos + LastOverlay.dur <= track.len

C6_Witness ==
    /\ last.outcome = "placed"
    /\ last.clipMs > 0
    /\ last.clipMs < last.slotMs
    /\ LastOverlay.dur = last.slotMs

\* C7 (as claimed): once allocated, the track is max(slot.end)*1000 ms long,
\* after every overlay and when exported.
Allocated == pc \in {"synth_loop", "merge", "merged", "handler"}
             \/ (pc = "done" /\ translated # <<>>)

C7_TrackLengthIsMaxEnd ==
    Allocated =>
        /\ track.len * TicksPerMs = MaxEnd(translated)
        /\ exportedMs # -1 => exportedMs * TicksPerMs = MaxEnd(translated)

\* C8: create_translated_audio_fixed returns a track handle only if at least
\* one clip was overlaid; with an empty list, or with every clip absent, it
\* returns None and exports no track.
C8_HandleOnlyWithClips ==
    /\ synthResult = TrackPath =>
          /\ track.overlays # <<>>
          /\ successful >= 1
    /\ (synthResult # Pending /\ (translated = <<>> \/ track.overlays = <<>>))
          => /\ synthResult = None
             /\ exportedMs = -1
             /\ ~\E f \in files : f.kind = "final"

C8_Witness ==
    /\ synthResult = None
    /\ Len(translated) = 2
    /\ InPipeline
    /\ idx = 3
    /\ successful = 0
    /\ track.overlays = <<>>

\* C9 (as claimed): a run that returns None has executed _clean_temp_files
\* exactly once between its failure and its return.
C9_CleanupOnceOnFailure ==
    (Returned /\ result = None) => cleanupsAfterFail = 1

\* C10 (as claimed): when translate_video has returned, no temporary artifact
\* of the run is left in temp_dir; after a success the only file left is the
\* muxed output in the output directory.
C10_NoTempFilesLeft ==
    Returned =>
        /\ TempFiles = {}
        /\ result = OutputPath =>
              \A f \in files : SamePath(f, File("out", VideoId, OutputPath, 0, 0))

\* C11: an interrupt received at any point of a run of translate_video (in
\* any stage, in the fallback and segment loops, in the final cleanup) is
\* treated like a stage failure: the run ends returning None after a cleanup,
\* never returning the output path and never letting the interrupt propagate.
C11_InterruptIsFailure ==
    (pc = "done" /\ failedAt = "Interrupted") =>
        /\ result = None
        /\ cleanupsAfterFail >= 1

FallbackSize(stage) ==
    IF stage = "Acquiring" THEN NumDownloadStrategies ELSE NumExtractCommands

\* C12: when every strategy of a fallback stage fails (by raising, timing out
\* or failing validation, in any mix), the stage returns its failure value and
\* exactly one failure reason per strategy has been recorded, in strategy order.
C12_OneReasonPerStrategy ==
    (Returned /\ failedAt \in {"Acquiring", "Extracting"}) =>
        /\ result = None
        /\ Len(attempts) = FallbackSize(failedAt)
        /\ \A k \in 1..Len(attempts) :
              /\ attempts[k].strategy = k
              /\ attempts[k].warned

RECURSIVE KeptIndices(_)
\* the indices, among the first n segments, of those whose stripped text is
\* not empty, in ascending order
KeptIndices(n) ==
    IF n = 0 THEN <<>>
    ELSE IF Strip(segments[n].text) = <<>> THEN KeptIndices(n - 1)
    ELSE Append(KeptIndices(n - 1), n)

TranslatedSoFar == IF pc = "translate" THEN idx - 1 ELSE Len(segments)

\* C14: translate_segments never aborts on the failure of one segment: it
\* returns exactly one entry for every input segment whose stripped text is not
\* empty, in input order, each with the segment's start and end, and the entry
\* of a segment whose translation failed holds the original text as its
\* translated text.
C14_OneEntryPerSpokenSegment ==
    /\ (InPipeline /\ "Transcribing" \in PassedStages) =>
          LET kept == KeptIndices(TranslatedSoFar)
          IN  /\ Len(translated) = Len(kept)
              /\ \A j \in 1..Len(kept) :
                    /\ translated[j].start = segments[kept[j]].start
                    /\ translated[j].end = segments[kept[j]].end
                    /\ translated[j].original = Strip(segments[kept[j]].text)
                    /\ translated[j].translated
                          \in {Translated, translated[j].original}
    /\ last.outcome \in {"tr_raised", "unchanged"} =>
          /\ pc \in {"translate", "synth_start"}
          /\ result = Pending
          /\ translated # <<>>
          /\ translated[Len(translated)].start = segments[last.seg].start
          /\ translated[Len(translated)].translated
                = Strip(segments[last.seg].text)

C14_Witness ==
    /\ pc = "synth_start"
    /\ InPipeline
    /\ last.outcome = "tr_raised"
    /\ Len(segments) = 2
    /\ Len(translated) = 1
    /\ translated[1].translated = translated[1].original

\* C15: every external-tool invocation (download attempt, extraction attempt,
\* muxing) is bounded by a timeout, so a run is never stuck: as long as it
\* has not ended (Done or Aborted) it can take a further step, even when a
\* tool never responds.
C15_NeverStuck == pc = "done" \/ ENABLED NextHang

\* the attempts log holds the passes of the download loop, of the extraction
\* loop
InDownloadLoop == pc = "download" \/ (pc = "done" /\ failedAt = "Acquiring")
InExtractLoop ==
    pc \in {"extract", "transcribe"} \/ (pc = "done" /\ failedAt = "Extracting")

\* C16: between two consecutive download attempts the fixed delay is taken,
\* whether the earlier attempt raised or failed validation; between two
\* extraction attempts no delay is taken.
C16_DelayBetweenDownloads ==
    /\ InDownloadLoop =>
          \A k \in 1..Len(attempts) : k < Len(attempts) => attempts[k].slept
    /\ InExtractLoop =>
          \A k \in 1..Len(attempts) : ~attempts[k].slept

\* C17: however the program is launched, its exit status is 0 exactly when
\* the run it made ended with translate_video returning the output path, and
\* non-zero when translate_video returned failure.
C17_ExitStatusTellsOutcome ==
    (pc = "exited" /\ result # Pending) =>
        (exitStatus = 0 <=> result = OutputPath)

\* C18: a segment whose speech file decodes to 0 ms of audio is treated as
\* failed: nothing is overlaid for it and it is not counted as a success.
C18_EmptyClipIsFailure ==
    (Reconciled /\ last.clipMs = 0) =>
        /\ last.outcome # "placed"
        /\ \A k \in 1..Len(track.overlays) : track.overlays[k].seg # last.seg

\* the whole millisecond nearest to t ticks, as the claim of C19 states it
\* (no value of SlotTimes lies halfway between two milliseconds)
RoundMs(t) == (2 * t + TicksPerMs) \div (2 * TicksPerMs)

\* C19: the millisecond values used by the assembly are the rounded-to-nearest
\* ones: track length round(max(end) * 1000), slot duration
\* round((end - start) * 1000), overlay offset round(start * 1000).
C19_RoundedToNearest ==
    /\ Allocated => track.len = RoundMs(MaxEnd(translated))
    /\ last.outcome = "placed" =>
          LET e == translated[last.seg]
          IN  /\ last.slotMs = RoundMs(e.end - e.start)
              /\ LastOverlay.pos = RoundMs(e.start)

\* C20: for a segment whose slot is 0 ms long or shorter (zero-length or
\* inverted slot) the clip is neither stretched nor truncated nor padded: it is
\* overlaid with the duration it was decoded with, at the start of the slot,
\* and counted as a success.
C20_EmptySlotKeepsClip ==
    (Reconciled /\ last.slotMs <= 0) =>
        /\ last.outcome = "placed"
        /\ LastOverlay.seg = last.seg
        /\ LastOverlay.dur = last.clipMs
        /\ LastOverlay.pos = StartMs(translated[last.seg])
        /\ successful = Len(track.overlays)

C20_Witness ==
    /\ last.outcome = "placed"
    /\ last.slotMs < 0
    /\ last.clipMs = 297
    /\ LastOverlay.dur = 297
    /\ successful = 2

\* an iteration of the segment loop in which the clip of a segment with text
\* could not be produced or processed
SegmentFails ==
    \/ SynthTtsRaises
    \/ SynthTtsNoFile
    \/ SynthLoadFails
    \/ SynthProcessRaises
    \/ SynthOverlayRaises

\* C21: a failure while producing or processing the clip of one segment
\* (synthesis error, missing or unreadable file, exception during
\* reconciliation or overlay) leaves the track and the success counter as they
\* were before the segment, and the loop goes on with the next segment.
C21_FailureLeavesTrack ==
    [][SegmentFails =>
          /\ track' = track
          /\ successful' = successful
          /\ translated' = translated
          /\ pc' = "synth_loop"
          /\ idx' = idx + 1]_vars

C21_Witness ==
    /\ pc = "synth_loop"
    /\ idx = 2
    /\ Len(translated) = 2
    /\ last.seg = 1
    /\ last.outcome \in {"tts_raised", "no_file", "load_failed",
                         "process_raised", "overlay_raised"}
    /\ successful = 0
    /\ track.overlays = <<>>

\* C22: when create_translated_audio_fixed has returned, on any path, no
\* speech_NNNN.mp3 file written during the call is left on disk.
C22_NoSpeechFileLeft ==
    synthResult # Pending => \A f \in files : f.kind # "speech"

\* C23: with two runs of different video ids working in the same temp_dir,
\* the cleanup of one run (at download start, on success, on abort) removes
\* only its own artifacts: every temporary file the other run has written and
\* still needs stays on disk.
C23_CleanupSparesOtherRun == OtherNeeds \subseteq files

====
